---- MODULE Spec2Model ----
(***************************************************************************)
(* A model of HseAppApi (src/src/hse_app_api.py): the client object with   *)
(* its session and token, the three-step handshake of get_bearer_token,    *)
(* and the authenticated GET wrapper with the two search methods.          *)
(*                                                                         *)
(* A Python str that goes through urlencode is a sequence of atoms: an     *)
(* atom is either a run of unreserved characters or one reserved           *)
(* character.  Every other str is a TLA+ string.  The network is the       *)
(* environment: each request's response is an input of the step that       *)
(* sends it, and every exchange is appended to the trace of the running    *)
(* operation.                                                              *)
(***************************************************************************)
EXTENDS Integers, Sequences, FiniteSets, TLC

VARIABLES
    creds,      \* self.username, self.password, self.client_id
    token,      \* self.token
    session,    \* self.session: a session id, or NoSession
    nsess,      \* number of requests.Session objects created so far
    open,       \* ids of the sessions that were not closed
    jar,        \* cookie jar of every session
    mine,       \* ids of the sessions created by auth()
    pc,         \* position of the single thread of control
    hs,         \* frame of the running get_bearer_token call
    reqs,       \* exchanges (request and response) of the running/last operation
    ret,        \* the running/last operation and how it ended
    call,       \* the arguments of the running/last operation
    lastAuth    \* how the last finished auth() call ended

vars == <<creds, token, session, nsess, open, jar, mine, pc, hs, reqs, ret, call, lastAuth>>

----------------------------------------------------------------------------
(* Bounds *)

MaxSessions == 2

----------------------------------------------------------------------------
(* Python values *)

NoneStr == "<None>"
NoSession == 0
NoStatus == -1
HTTP_FOUND == 302
HTTP_OK == 200

REDIRECT_URI ==
    <<"ru.hse.pf", ":", "/", "/", "auth.hse.ru", "/", "adfs", "/", "oauth2", "/",
      "android", "/", "ru.hse.pf", "/", "callback", "/">>
BASE_URL_AUTHORIZE == "https://auth.hse.ru/adfs/oauth2/authorize/"
BASE_URL_TOKEN == "https://auth.hse.ru/adfs/oauth2/token/"
BASE_URL_SEARCH == "https://api.hseapp.ru/v2/dump/search/"
BASE_URL_EMAIL_SEARCH == "https://api.hseapp.ru/v2/dump/email/"

SEARCH_SCOPES ==
    <<"student", "staff", "external_staff", "auditorium", "group", "course", "service">>
DEFAULT_SEARCH_SCOPE == "all"
DEFAULT_SEARCH_COUNT == 5

Range(s) == {s[i] : i \in DOMAIN s}

\* the characters of a str, concatenated
RECURSIVE Cat(_)
Cat(atoms) == IF atoms = <<>> THEN "" ELSE Head(atoms) \o Cat(Tail(atoms))

\* str(n) for n >= 0
Digit(d) ==
    CASE d = 0 -> "0" [] d = 1 -> "1" [] d = 2 -> "2" [] d = 3 -> "3" [] d = 4 -> "4"
      [] d = 5 -> "5" [] d = 6 -> "6" [] d = 7 -> "7" [] d = 8 -> "8" [] d = 9 -> "9"

RECURSIVE Str(_)
Str(n) == IF n < 10 THEN Digit(n) ELSE Str(n \div 10) \o Digit(n % 10)

\* a join that leaves the separator out
Join_NoSeparator(sep, items) == items

\* sep.join(items)
RECURSIVE Join(_, _)
Join(sep, items) ==
    IF items = <<>> THEN <<>>
    ELSE IF Len(items) = 1 THEN <<Head(items)>>
    ELSE <<Head(items), sep>> \o Join(sep, Tail(items))

\* urllib.parse.quote_plus on one atom
QuoteAtom(a) ==
    CASE a = " " -> "+"
      [] a = ":" -> "%3A"
      [] a = "/" -> "%2F"
      [] a = "," -> "%2C"
      [] a = "@" -> "%40"
      [] a = "?" -> "%3F"
      [] a = "=" -> "%3D"
      [] a = "&" -> "%26"
      [] OTHER -> a

RECURSIVE QuotePlus(_)
QuotePlus(atoms) ==
    IF atoms = <<>> THEN "" ELSE QuoteAtom(Head(atoms)) \o QuotePlus(Tail(atoms))

\* urllib.parse.urlencode of a dict given as its items, in insertion order
RECURSIVE urlencode(_)
urlencode(params) ==
    IF params = <<>> THEN ""
    ELSE LET kv == Head(params)
             one == QuotePlus(kv[1]) \o "=" \o QuotePlus(kv[2])
         IN IF Len(params) = 1 THEN one ELSE one \o "&" \o urlencode(Tail(params))

\* params is <<FALSE, <<>>>> for None and <<TRUE, items>> for a dict
NoParams == <<FALSE, <<>>>>
Params(items) == <<TRUE, items>>

\* a combine that tests "not params": an empty dict leaves the URL unchanged
combine_base_url_with_params_Falsy(url, params) ==
    IF ~params[1] \/ params[2] = <<>> THEN url ELSE url \o "?" \o urlencode(params[2])

combine_base_url_with_params(url, params) ==
    IF ~params[1] THEN url ELSE url \o "?" \o urlencode(params[2])

----------------------------------------------------------------------------
(* Exceptions *)

Err(type, msg, status, key) == [type |-> type, msg |-> msg, status |-> status, key |-> key]
NoErr == Err("", "", NoStatus, "")

ErrAuthPost(status) == Err("ValueError", "Bad status code for post on auth url", status, "")
ErrAssert == Err("AssertionError", "", NoStatus, "")
ErrKey(key) == Err("KeyError", "", NoStatus, key)
ErrJson == Err("JSONDecodeError", "", NoStatus, "")
ErrNoSession == Err("ValueError", "No opened session found! Use HseAppApi.auth() first.", NoStatus, "")
ErrStatus(status) == Err("ValueError", "Error: expected code 200, got", status, "")
ErrScope(type_) == Err("ValueError", "type must be one of", NoStatus, type_)

----------------------------------------------------------------------------
(* The environment: what the servers may answer *)

CookieSets == {{}, {"sid"}}
PreExistingJars == {{"old"}}

Body(valid, has_token, access_token, text) ==
    [valid |-> valid, has_token |-> has_token, access_token |-> access_token, text |-> text]
NoBody == Body(FALSE, FALSE, "", "")
TokenBodies ==
    { Body(TRUE, TRUE, "tok123", "{\"access_token\": \"tok123\"}"),
      Body(TRUE, TRUE, "tokABC", "{\"access_token\": \"tokABC\"}"),
      Body(TRUE, FALSE, "", "{\"error\": \"invalid_grant\"}"),
      Body(FALSE, FALSE, "", "<html>") }
ApiBodies ==
    { Body(TRUE, FALSE, "", "[{\"email\": \"aashishkov@edu.hse.ru\"}]"),
      Body(FALSE, FALSE, "", "<html>") }

LocAuthorize == "https://auth.hse.ru:443/adfs/oauth2/authorize?client-request-id=ac708a1c"
LocCallbackCode == "ru.hse.pf://auth.hse.ru/adfs/oauth2/android/ru.hse.pf/callback/?code=KwMmAUI6c0"
LocCallbackNoCode == "ru.hse.pf://auth.hse.ru/adfs/oauth2/android/ru.hse.pf/callback/?error=denied"
LocCallbackBlankCode == "ru.hse.pf://auth.hse.ru/adfs/oauth2/android/ru.hse.pf/callback/?code="

\* a missing Location header is NoneStr; the cookies of the handshake are set
\* by the response of step 1
Step1Locations == {LocAuthorize, NoneStr}
Step2Locations == {LocCallbackCode, LocCallbackNoCode, LocCallbackBlankCode, NoneStr}

Response(status, location, set_cookies, body) ==
    [status |-> status, location |-> location, set_cookies |-> set_cookies, body |-> body]

\* The answers to the three requests of the handshake.  What a step does not
\* read (the Location and cookies of a response whose status is not 302) is
\* given one value per status.  The token POST and the API GET follow
\* redirects, so their final response is never a 302.
Step1Responses ==
    { Response(HTTP_FOUND, location, set_cookies, NoBody) :
          location \in Step1Locations, set_cookies \in CookieSets }
        \cup { Response(HTTP_OK, LocAuthorize, {"sid"}, NoBody),
               Response(401, NoneStr, {}, NoBody) }
Step2Responses ==
    { Response(HTTP_FOUND, location, {}, NoBody) : location \in Step2Locations }
        \cup { Response(HTTP_OK, LocCallbackCode, {}, NoBody),
               Response(401, NoneStr, {}, NoBody) }
Step3Responses ==
    { Response(HTTP_OK, NoneStr, {}, body) : body \in TokenBodies }
        \cup { Response(401, NoneStr, {}, body) :
                   body \in {b \in TokenBodies : b.valid /\ b.access_token # "tokABC"} }

\* urlparse(url).query, split at "&" and "=", for the URLs of the model
UrlQueryPairs(url) ==
    CASE url = LocAuthorize -> << <<"client-request-id", "ac708a1c">> >>
      [] url = LocCallbackCode -> << <<"code", "KwMmAUI6c0">> >>
      [] url = LocCallbackNoCode -> << <<"error", "denied">> >>
      [] url = LocCallbackBlankCode -> << <<"code", "">> >>
      [] OTHER -> <<>>

\* a parse_qs that collects the values of every key
RECURSIVE ParseQs_AnyKey(_, _)
ParseQs_AnyKey(pairs, key) ==
    IF pairs = <<>> THEN <<>>
    ELSE IF Head(pairs)[2] # ""
    THEN <<Head(pairs)[2]>> \o ParseQs_AnyKey(Tail(pairs), key)
    ELSE ParseQs_AnyKey(Tail(pairs), key)

\* parse_qs(query)[key]: the values of key, blank values dropped; <<>> when
\* the key is not in the dict
RECURSIVE ParseQs(_, _)
ParseQs(pairs, key) ==
    IF pairs = <<>> THEN <<>>
    ELSE LET kv == Head(pairs)
         IN IF kv[1] = key /\ kv[2] # ""
            THEN <<kv[2]>> \o ParseQs(Tail(pairs), key)
            ELSE ParseQs(Tail(pairs), key)

----------------------------------------------------------------------------
(* requests.Session *)

\* the cookies a request of a session carries, given the cookies= argument
MergeCookies(session_jar, cookies) == session_jar \cup cookies

Exchange(method, url, sess, cookies, auth, allow_redirects, data, resp) ==
    [method |-> method, url |-> url, sess |-> sess, cookies |-> cookies, auth |-> auth,
     allow_redirects |-> allow_redirects, data |-> data, resp |-> resp]

----------------------------------------------------------------------------
(* The client *)

Credentials ==
    { [username |-> "aashishkov@edu.hse.ru", password |-> "pw1", client_id |-> <<"app-1">>],
      [username |-> "ivanov@hse.ru", password |-> "pw2", client_id |-> <<"app", ":", "2">>] }

\* the credentials another caller passes to get_bearer_token
CallerCredentials == {c \in Credentials : c.password = "pw2"}

NoFrame ==
    [owner |-> "", sess |-> NoSession, args |-> CHOOSE c \in Credentials : TRUE,
     cookies |-> {}, url_auth_get |-> "", code |-> <<>>]

Ret(op, kind, err, value, type_) ==
    [op |-> op, kind |-> kind, err |-> err, value |-> value, type_ |-> type_]

\* the arguments of a call: query and count of search (count is CountOmitted
\* when left out), email of search_by_email, base_url and params of get_request
Call(query, count, email, base_url, params) ==
    [query |-> query, count |-> count, email |-> email, base_url |-> base_url,
     params |-> params]
CountOmitted == 0
NoCall == Call(<<>>, CountOmitted, "", "", NoParams)

NoAuth == [outcome |-> "none", token |-> NoneStr, sess |-> NoSession]

\* HseAppApi.__init__
Init ==
    /\ creds \in Credentials
    /\ token = NoneStr
    /\ session = NoSession
    /\ nsess = 0
    /\ open = {}
    /\ jar = <<>>
    /\ mine = {}
    /\ pc = "idle"
    /\ hs = NoFrame
    /\ reqs = <<>>
    /\ ret = Ret("__init__", "return", NoErr, "", NoneStr)
    /\ call = NoCall
    /\ lastAuth = NoAuth

\* requests.Session(): a new open session with an empty cookie jar
NewSession(initial_jar) ==
    /\ nsess' = nsess + 1
    /\ open' = open \cup {nsess + 1}
    /\ jar' = Append(jar, initial_jar)

\* an auth() that leaves the prior session open
ClosePrior_Never(s, opened) == opened

\* auth(), lines 134-135: close the prior session
ClosePrior(s, opened) == IF s # NoSession THEN opened \ {s} ELSE opened

AuthClose ==
    /\ pc = "idle"
    /\ nsess < MaxSessions
    /\ open' = ClosePrior(session, open)
    /\ pc' = "auth_new"
    /\ reqs' = <<>>
    /\ ret' = Ret("auth", "running", NoErr, "", NoneStr)
    /\ call' = NoCall
    /\ UNCHANGED <<creds, token, session, nsess, jar, mine, hs, lastAuth>>

\* an auth() that passes the new session on without storing it in self.session
AuthNewSession_NotStored ==
    /\ pc = "auth_new"
    /\ NewSession({})
    /\ mine' = mine \cup {nsess + 1}
    /\ hs' = [NoFrame EXCEPT !.owner = "auth", !.sess = nsess + 1, !.args = creds]
    /\ pc' = "step1"
    /\ UNCHANGED <<creds, token, session, reqs, ret, call, lastAuth>>

\* auth(), lines 136-142: create the session and enter get_bearer_token with it
AuthNewSession ==
    /\ pc = "auth_new"
    /\ NewSession({})
    /\ session' = nsess + 1
    /\ mine' = mine \cup {nsess + 1}
    /\ hs' = [NoFrame EXCEPT !.owner = "auth", !.sess = nsess + 1, !.args = creds]
    /\ pc' = "step1"
    /\ UNCHANGED <<creds, token, reqs, ret, call, lastAuth>>

\* get_bearer_token called by another caller, with no session (one is created,
\* lines 65-66) or with a session of the caller's
StaticGetBearerToken ==
    /\ pc = "idle"
    /\ nsess < MaxSessions
    /\ \E args \in CallerCredentials, initial_jar \in {{}} \cup PreExistingJars :
          /\ NewSession(initial_jar)
          /\ hs' = [NoFrame EXCEPT !.owner = "caller", !.sess = nsess + 1, !.args = args]
    /\ pc' = "step1"
    /\ reqs' = <<>>
    /\ ret' = Ret("get_bearer_token", "running", NoErr, "", NoneStr)
    /\ call' = NoCall
    /\ UNCHANGED <<creds, token, session, mine, lastAuth>>

\* an exception leaves get_bearer_token, and auth() when auth() called it
HsRaise(e) ==
    /\ pc' = "idle"
    /\ hs' = NoFrame
    /\ ret' = [ret EXCEPT !.kind = "raise", !.err = e]
    /\ lastAuth' = IF hs.owner = "auth"
                   THEN [outcome |-> "failed", token |-> NoneStr, sess |-> hs.sess]
                   ELSE lastAuth
    /\ UNCHANGED token

\* an auth() that drops the token get_bearer_token returned
HsReturn_NotStored(tok) ==
    /\ pc' = "idle"
    /\ hs' = NoFrame
    /\ ret' = [ret EXCEPT !.kind = "return", !.value = tok]
    /\ lastAuth' = IF hs.owner = "auth"
                   THEN [outcome |-> "ok", token |-> tok, sess |-> hs.sess]
                   ELSE lastAuth
    /\ UNCHANGED token

\* get_bearer_token returns; auth() stores the result in self.token (line 137)
HsReturn(tok) ==
    /\ pc' = "idle"
    /\ hs' = NoFrame
    /\ ret' = [ret EXCEPT !.kind = "return", !.value = tok]
    /\ IF hs.owner = "auth"
       THEN /\ token' = tok
            /\ lastAuth' = [outcome |-> "ok", token |-> tok, sess |-> hs.sess]
       ELSE UNCHANGED <<token, lastAuth>>

\* the session sends a request and stores the cookies of the response
Send(trace, x) ==
    /\ reqs' = Append(trace, x)
    /\ jar' = [jar EXCEPT ![x.sess] = @ \cup x.resp.set_cookies]

\* a handshake that leaves allow_redirects at its default in every request
AllowRedirects_Default(step) == TRUE

\* allow_redirects of the request of a step: False in steps 1 and 2 (lines 86,
\* 104), the default True in step 3
AllowRedirects(step) == step = 3

\* status checks that fail on error statuses only, or not at all
Step1StatusOk_Below400(status) == status < 400
Step2StatusOk_Unchecked(status) == TRUE

\* the status checks of steps 1 and 2 (lines 90, 108)
Step1StatusOk(status) == status = HTTP_FOUND
Step2StatusOk(status) == status = HTTP_FOUND

\* lines 69-96: the authorize POST and its status check; line 103: its Location
Step1 ==
    /\ pc = "step1"
    /\ \E res_auth_post \in Step1Responses :
          LET url_auth_post ==
                  combine_base_url_with_params(BASE_URL_AUTHORIZE,
                      Params(<< <<<<"client_id">>, hs.args.client_id>>,
                                <<<<"redirect_uri">>, REDIRECT_URI>>,
                                <<<<"response_type">>, <<"code">>>> >>))
              data == << <<"UserName", <<hs.args.username>>>>,
                         <<"Password", <<hs.args.password>>>>,
                         <<"AuthMethod", <<"FormsAuthentication">>>> >>
          IN /\ Send(reqs, Exchange("POST", url_auth_post, hs.sess,
                              MergeCookies(jar[hs.sess], {}), "", AllowRedirects(1), data,
                              res_auth_post))
             /\ IF ~Step1StatusOk(res_auth_post.status)
                THEN HsRaise(ErrAuthPost(res_auth_post.status))
                ELSE IF res_auth_post.location = NoneStr
                THEN HsRaise(ErrKey("location"))
                ELSE /\ hs' = [hs EXCEPT !.cookies = res_auth_post.set_cookies,
                                         !.url_auth_get = res_auth_post.location]
                     /\ pc' = "step2"
                     /\ UNCHANGED <<token, ret, lastAuth>>
    /\ UNCHANGED <<creds, session, nsess, open, mine, call>>

\* lines 104-116: the GET on the Location of step 1, and the code of its Location
Step2 ==
    /\ pc = "step2"
    /\ \E res_auth_get \in Step2Responses :
          LET code == ParseQs(UrlQueryPairs(res_auth_get.location), "code")
          IN /\ Send(reqs, Exchange("GET", hs.url_auth_get, hs.sess,
                              MergeCookies(jar[hs.sess], hs.cookies), "", AllowRedirects(2),
                              <<>>, res_auth_get))
             /\ IF ~Step2StatusOk(res_auth_get.status)
                THEN HsRaise(ErrAssert)
                ELSE IF res_auth_get.location = NoneStr
                THEN HsRaise(ErrKey("location"))
                ELSE IF code = <<>>
                THEN HsRaise(ErrKey("code"))
                ELSE /\ hs' = [hs EXCEPT !.code = code]
                     /\ pc' = "step3"
                     /\ UNCHANGED <<token, ret, lastAuth>>
    /\ UNCHANGED <<creds, session, nsess, open, mine, call>>

\* lines 121-131: the token POST and the access_token of its JSON body
Step3 ==
    /\ pc = "step3"
    /\ \E res_token_post \in Step3Responses :
          LET data == << <<"code", hs.code>>,
                         <<"client_id", <<Cat(hs.args.client_id)>>>>,
                         <<"redirect_uri", <<Cat(REDIRECT_URI)>>>>,
                         <<"grant_type", <<"authorization_code">>>> >>
          IN /\ Send(reqs, Exchange("POST", BASE_URL_TOKEN, hs.sess,
                              MergeCookies(jar[hs.sess], {}), "", AllowRedirects(3), data,
                              res_token_post))
             /\ IF ~res_token_post.body.valid
                THEN HsRaise(ErrJson)
                ELSE IF ~res_token_post.body.has_token
                THEN HsRaise(ErrKey("access_token"))
                ELSE HsReturn(res_token_post.body.access_token)
    /\ UNCHANGED <<creds, session, nsess, open, mine, call>>

----------------------------------------------------------------------------
(* The authenticated request wrapper and the search methods *)

has_session == session # NoSession

\* "{token}".format(token=self.token)
FormatToken(t) == IF t = NoneStr THEN "None" ELSE t

\* a header without the space after the scheme
get_api_headers_NoSpace == "Bearer" \o FormatToken(token)

\* the authorization header of get_api_headers
get_api_headers == "Bearer " \o FormatToken(token)

\* a get_request without its status check
ApiStatusOk_Unchecked(status) == TRUE

\* the status check of get_request (line 167)
ApiStatusOk(status) == status = HTTP_OK

\* get_request(base_url, params), called by op, answered by the given response
get_request(op, type_, base_url, params, resp) ==
    IF ~has_session
    THEN /\ reqs' = <<>>
         /\ ret' = Ret(op, "raise", ErrNoSession, "", type_)
         /\ UNCHANGED jar
    ELSE LET url == combine_base_url_with_params(base_url, params)
             headers == get_api_headers
         IN /\ Send(<<>>, Exchange("GET", url, session, MergeCookies(jar[session], {}),
                                   headers, TRUE, <<>>, resp))
            /\ ret' = IF ~ApiStatusOk(resp.status)
                      THEN Ret(op, "raise", ErrStatus(resp.status), "", type_)
                      ELSE IF ~resp.body.valid
                      THEN Ret(op, "raise", ErrJson, "", type_)
                      ELSE Ret(op, "return", NoErr, resp.body.text, type_)

\* the body of a response is read only when its status is 200
ApiResponses ==
    { Response(HTTP_OK, NoneStr, {}, body) : body \in ApiBodies }
        \cup { Response(500, NoneStr, {}, NoBody) }

\* arguments of the calls
Queries == { <<"Ivanov", " ", "Ivan">> }
Emails == { "aashishkov@edu.hse.ru" }
Types == {NoneStr, "student", DEFAULT_SEARCH_SCOPE, "nonexistent_scope"}
Counts == {CountOmitted, 1}

\* params of a direct get_request: None, {}, {"a": 1, "b": 2}, {"q": "a b", "t": "x,y"}
ParamsArgs ==
    { NoParams,
      Params(<<>>),
      Params(<< <<<<"a">>, <<Str(1)>>>>, <<<<"b">>, <<Str(2)>>>> >>),
      Params(<< <<<<"q">>, <<"a", " ", "b">>>>, <<<<"t">>, <<"x", ",", "y">>>> >>) }

\* a wrapper that forgets the token when a call is over
ClientUnchanged_TokenCleared == token' = NoneStr /\ UNCHANGED <<creds, session>>

\* get_request, search and search_by_email assign no attribute of the client
ClientUnchanged == UNCHANGED <<creds, token, session>>

\* a scope check that accepts the default scope "all"
ScopeOk_WithAll(type_) == type_ \in Range(SEARCH_SCOPES) \cup {DEFAULT_SEARCH_SCOPE}

\* the scope check of search (line 183)
ScopeOk(type_) == type_ \in Range(SEARCH_SCOPES)

\* search(query, type_, count)
Search ==
    /\ pc = "idle"
    /\ \E query \in Queries, type_arg \in Types, count_arg \in Counts, resp \in ApiResponses :
          LET count == IF count_arg = CountOmitted THEN DEFAULT_SEARCH_COUNT ELSE count_arg
              type_ == IF type_arg = NoneStr
                       THEN Join(",", SEARCH_SCOPES)
                       ELSE <<type_arg>>
              params == Params(<< <<<<"q">>, query>>,
                                  <<<<"type">>, type_>>,
                                  <<<<"count">>, <<Str(count)>>>> >>)
          IN IF type_arg # NoneStr /\ ~ScopeOk(type_arg)
             THEN /\ call' = Call(query, count_arg, "", "", NoParams)
                  /\ reqs' = <<>>
                  /\ ret' = Ret("search", "raise", ErrScope(type_arg), "", type_arg)
                  /\ UNCHANGED jar
             ELSE /\ call' = Call(query, count_arg, "", BASE_URL_SEARCH, params)
                  /\ get_request("search", type_arg, BASE_URL_SEARCH, params, resp)
    /\ ClientUnchanged
    /\ UNCHANGED <<nsess, open, mine, pc, hs, lastAuth>>

\* search_by_email(email)
SearchByEmail ==
    /\ pc = "idle"
    /\ \E email \in Emails, resp \in ApiResponses :
          LET url == BASE_URL_EMAIL_SEARCH \o email
          IN /\ call' = Call(<<>>, CountOmitted, email, url, NoParams)
             /\ get_request("search_by_email", NoneStr, url, NoParams, resp)
    /\ ClientUnchanged
    /\ UNCHANGED <<nsess, open, mine, pc, hs, lastAuth>>

\* get_request called by another caller
GetRequest ==
    /\ pc = "idle"
    /\ \E params \in ParamsArgs, resp \in ApiResponses :
          /\ call' = Call(<<>>, CountOmitted, "", BASE_URL_SEARCH, params)
          /\ get_request("get_request", NoneStr, BASE_URL_SEARCH, params, resp)
    /\ ClientUnchanged
    /\ UNCHANGED <<nsess, open, mine, pc, hs, lastAuth>>

----------------------------------------------------------------------------

Next ==
    \/ AuthClose
    \/ AuthNewSession
    \/ StaticGetBearerToken
    \/ Step1
    \/ Step2
    \/ Step3
    \/ Search
    \/ SearchByEmail
    \/ GetRequest

Spec == Init /\ [][Next]_vars

----------------------------------------------------------------------------
(* Properties *)

HandshakeOps == {"auth", "get_bearer_token"}
SearchOps == {"search", "search_by_email"}
WrapperOps == SearchOps \cup {"get_request"}

\* the last call was rejected by the scope check of search
ScopeRejected == ret.kind = "raise" /\ ret.err.msg = "type must be one of"

\* the running/last operation is a handshake that has sent at least k requests
HsSent(k) == ret.op \in HandshakeOps /\ Len(reqs) >= k

\* C1: after an auth() whose handshake failed, the client's token is unset and
\* it cannot issue an authenticated request (get_request would not send).
C1_FailedAuthLeavesNoUsableToken ==
    (pc = "idle" /\ lastAuth.outcome = "failed") => (token = NoneStr /\ ~has_session)

\* C2: a call that reaches get_request while the session is absent or the
\* token is unset fails with the not-authenticated error and sends nothing.
C2_GetOnlyWithSessionAndToken ==
    (ret.op \in WrapperOps /\ ~ScopeRejected /\ (session = NoSession \/ token = NoneStr))
        => (reqs = <<>> /\ ret.kind = "raise" /\ ret.err = ErrNoSession)

\* C3 (as stated): before the first auth(), every search and search_by_email
\* fails with the not-authenticated error and sends nothing.
C3_UnauthenticatedAlwaysNotAuthenticated ==
    (mine = {} /\ ret.op \in SearchOps)
        => (ret.kind = "raise" /\ ret.err = ErrNoSession /\ reqs = <<>>)

\* C3 (amended): before the first auth(), every search and search_by_email
\* fails and sends nothing; the error is the invalid-scope error when search
\* was given a scope outside the seven enumerated ones, and the
\* not-authenticated error otherwise.
C3_UnauthenticatedFailsWithoutIO ==
    (mine = {} /\ ret.op \in SearchOps)
        => /\ ret.kind = "raise"
           /\ reqs = <<>>
           /\ ret.err = IF ret.op = "search" /\ ret.type_ # NoneStr
                           /\ ret.type_ \notin Range(SEARCH_SCOPES)
                        THEN ErrScope(ret.type_)
                        ELSE ErrNoSession

C3_Witness ==
    mine = {} /\ ret.op = "search" /\ ret.type_ = "student" /\ ret.err = ErrNoSession

\* C4: when the authorize POST is answered with a status other than 302, the
\* handshake ends with the bad-status error carrying that status, and the
\* authorize POST is the only request of the run.
C4_Step1FailureStops ==
    (HsSent(1) /\ reqs[1].resp.status # HTTP_FOUND)
        => /\ pc = "idle"
           /\ ret.kind = "raise"
           /\ ret.err = ErrAuthPost(reqs[1].resp.status)
           /\ Len(reqs) = 1
           /\ reqs[1].method = "POST"

C4_Witness ==
    HsSent(1) /\ reqs[1].resp.status = HTTP_OK /\ reqs[1].resp.location # NoneStr

\* the status each step expects (302, 302, 200)
ExpectedStatus(k) == IF k = 3 THEN HTTP_OK ELSE HTTP_FOUND

\* C5: at each of the three steps a response with an unexpected status ends
\* the handshake at that step with a ValueError (the kind step 1 raises) that
\* carries the observed status.
C5_EveryStepStatusIsFatal ==
    \A k \in 1..3 :
        (HsSent(k) /\ reqs[k].resp.status # ExpectedStatus(k))
            => /\ pc = "idle"
               /\ ret.kind = "raise"
               /\ ret.err.type = "ValueError"
               /\ ret.err.status = reqs[k].resp.status
               /\ Len(reqs) = k

\* C6: when the step-2 GET is answered with a status other than 302, the
\* handshake ends with an error and no token POST is sent in that run.
C6_Step2FailureStops ==
    (HsSent(2) /\ reqs[2].resp.status # HTTP_FOUND)
        => /\ pc = "idle"
           /\ ret.kind = "raise"
           /\ ret.err = ErrAssert
           /\ Len(reqs) = 2
           /\ \A i \in DOMAIN reqs : reqs[i].url # BASE_URL_TOKEN

C6_Witness ==
    HsSent(2) /\ reqs[2].resp.status = HTTP_OK /\ reqs[2].resp.location = LocCallbackCode

\* the query string of a Location has no pair whose key is "code"
LacksCode(location) ==
    \A i \in DOMAIN UrlQueryPairs(location) : UrlQueryPairs(location)[i][1] # "code"

\* C7: when the step-2 response is a 302 whose Location has no code parameter,
\* the handshake ends with KeyError("code"), sends no token POST and yields
\* no token.
C7_MissingCodeStops ==
    (HsSent(2) /\ reqs[2].resp.status = HTTP_FOUND /\ reqs[2].resp.location # NoneStr
        /\ LacksCode(reqs[2].resp.location))
        => /\ pc = "idle"
           /\ ret.kind = "raise"
           /\ ret.err = ErrKey("code")
           /\ ret.value = ""
           /\ Len(reqs) = 2
           /\ lastAuth.outcome # "ok" \/ ret.op # "auth"

C7_Witness ==
    HsSent(2) /\ reqs[2].resp.status = HTTP_FOUND
        /\ reqs[2].resp.location = LocCallbackNoCode /\ ret.op = "auth"

\* C8: the second request of a handshake is a GET to the Location of the
\* step-1 response that carries exactly the cookies set by that response.
C8_Step2ExactlyStep1Cookies ==
    HsSent(2)
        => /\ reqs[2].method = "GET"
           /\ reqs[2].url = reqs[1].resp.location
           /\ reqs[2].cookies = reqs[1].resp.set_cookies

\* C9: after a successful auth() the token is the access_token of the token
\* POST's response, and until the next auth() every search and
\* search_by_email that passes the scope check sends one GET, on the session
\* of that auth(), with the header "Bearer " followed by that token.
C9_TokenAndHeaderAfterAuth ==
    /\ (ret.op = "auth" /\ ret.kind = "return")
          => /\ Len(reqs) = 3
             /\ token = reqs[3].resp.body.access_token
             /\ lastAuth = [outcome |-> "ok", token |-> token, sess |-> session]
    /\ (lastAuth.outcome = "ok" /\ ret.op \in SearchOps /\ ~ScopeRejected)
          => /\ Len(reqs) = 1
             /\ reqs[1].method = "GET"
             /\ reqs[1].sess = lastAuth.sess
             /\ reqs[1].auth = "Bearer " \o lastAuth.token

C9_Witness ==
    lastAuth.outcome = "ok" /\ lastAuth.token = "tok123" /\ ret.op = "search"
        /\ ret.kind = "return" /\ reqs[1].auth = "Bearer tok123"

\* C10: auth() closes the prior session before it creates the new one and
\* before the new handshake sends anything; at most one session created by
\* the client is open; the client never sends on a closed session.
C10_OneOpenSession ==
    /\ Cardinality(mine \cap open) <= 1
    /\ pc = "auth_new" => (mine \cap open = {} /\ reqs = <<>>)
    /\ ret.op \in {"auth"} \cup WrapperOps
          => \A i \in DOMAIN reqs : reqs[i].sess \in open /\ reqs[i].sess = session

C10_Witness ==
    Cardinality(mine) = 2 /\ ret.op = "auth" /\ Len(reqs) >= 1 /\ Cardinality(open) = 1

\* the last call was a search given a scope outside the seven enumerated ones
InvalidScopeCall ==
    ret.op = "search" /\ ret.type_ # NoneStr /\ ret.type_ \notin Range(SEARCH_SCOPES)

\* C11: a search given a scope outside the seven enumerated ones fails with
\* the invalid-scope error and sends nothing, in every client state, and the
\* call leaves the session and the token as they were.
C11_InvalidScopeRejected ==
    /\ [](InvalidScopeCall
            => (ret.kind = "raise" /\ ret.err = ErrScope(ret.type_) /\ reqs = <<>>))
    /\ [][InvalidScopeCall' => (session' = session /\ token' = token)]_vars

C11_Witness ==
    InvalidScopeCall /\ ret.type_ = "nonexistent_scope" /\ lastAuth.outcome = "failed"
        /\ token # NoneStr

\* C12: when the GET of get_request is answered with a status other than 200,
\* the call fails with the status error carrying that status and returns no
\* parsed body.
C12_Non200IsUpstreamError ==
    (ret.op \in WrapperOps /\ reqs # <<>> /\ reqs[1].resp.status # HTTP_OK)
        => /\ ret.kind = "raise"
           /\ ret.err = ErrStatus(reqs[1].resp.status)
           /\ ret.value = ""

C12_Witness ==
    ret.op = "search" /\ reqs # <<>> /\ reqs[1].resp.status = 500

\* the step in which get_bearer_token returns to auth()
AuthReturnStep == pc = "step3" /\ hs.owner = "auth" /\ ret'.kind = "return"

\* C13: the token is None until an auth() has finished; the step in which
\* auth()'s handshake returns assigns it the access_token of the token POST,
\* and no other step (a failing auth() step included) changes it.
C13_TokenSetOnlyBySuccessfulAuth ==
    /\ [](lastAuth.outcome = "none" => token = NoneStr)
    /\ [][IF AuthReturnStep
          THEN token' = reqs'[3].resp.body.access_token
          ELSE token' = token]_vars

C13_Witness ==
    Cardinality(mine) = 2 /\ lastAuth.outcome = "ok" /\ token = "tokABC" /\ ret.op = "auth"

\* C14: a search with the scope unset sends q equal to the query, type equal
\* to the seven scopes in declared order joined by commas, and count equal to
\* the given count, 5 when it is left out.
C14_UnsetScopeSendsAllScopes ==
    (ret.op = "search" /\ ret.type_ = NoneStr /\ reqs # <<>>)
        => reqs[1].url =
              BASE_URL_SEARCH \o "?q=" \o QuotePlus(call.query)
                \o "&type=student%2Cstaff%2Cexternal_staff%2Cauditorium%2Cgroup%2Ccourse%2Cservice"
                \o "&count=" \o (IF call.count = CountOmitted THEN "5" ELSE Str(call.count))

C14_Witness ==
    ret.op = "search" /\ ret.type_ = NoneStr /\ reqs # <<>> /\ call.count = CountOmitted

\* C15 (as stated): a search given the scope "all" passes the scope check,
\* and what it sends has type equal to the comma-joined list of the seven scopes.
C15_AllIsAccepted ==
    (ret.op = "search" /\ ret.type_ = DEFAULT_SEARCH_SCOPE)
        => /\ ~ScopeRejected
           /\ reqs # <<>> =>
                reqs[1].url =
                  BASE_URL_SEARCH \o "?q=" \o QuotePlus(call.query)
                    \o "&type=student%2Cstaff%2Cexternal_staff%2Cauditorium%2Cgroup%2Ccourse%2Cservice"
                    \o "&count=" \o (IF call.count = CountOmitted THEN "5" ELSE Str(call.count))

\* C15 (amended): a scope given to search is valid exactly when it is one of
\* the seven enumerated scopes; "all" is rejected with the invalid-scope error
\* and nothing is sent; a valid scope is sent as the type parameter.
C15_OnlyEnumeratedScopesValid ==
    (ret.op = "search" /\ ret.type_ # NoneStr)
        => /\ ScopeRejected <=> ret.type_ \notin Range(SEARCH_SCOPES)
           /\ ret.type_ = DEFAULT_SEARCH_SCOPE
                => (ret.err = ErrScope(DEFAULT_SEARCH_SCOPE) /\ reqs = <<>>)
           /\ reqs # <<>> =>
                reqs[1].url =
                  BASE_URL_SEARCH \o "?q=" \o QuotePlus(call.query)
                    \o "&type=" \o ret.type_
                    \o "&count=" \o (IF call.count = CountOmitted THEN "5" ELSE Str(call.count))

C15_Witness ==
    ret.op = "search" /\ ret.type_ = DEFAULT_SEARCH_SCOPE /\ has_session /\ token # NoneStr

\* C16: the URL get_request sends to is its base_url unchanged exactly when
\* params is None; for a dict it is base_url, "?", and the key=value pairs
\* joined by "&" in the order given ({} gives base_url followed by "?").
C16_CombineUrl ==
    (ret.op \in WrapperOps /\ reqs # <<>>)
        => LET url == reqs[1].url
               base == call.base_url
           IN /\ call.params = NoParams <=> url = base
              /\ call.params = Params(<<>>) => url = base \o "?"
              /\ call.params = Params(<< <<<<"a">>, <<"1">>>>, <<<<"b">>, <<"2">>>> >>)
                    => url = base \o "?a=1&b=2"
              /\ call.params = Params(<< <<<<"q">>, <<"a", " ", "b">>>>,
                                         <<<<"t">>, <<"x", ",", "y">>>> >>)
                    => url = base \o "?q=a+b&t=x%2Cy"

C16_Witness ==
    ret.op = "get_request" /\ reqs # <<>>
        /\ call.params = Params(<< <<<<"a">>, <<"1">>>>, <<<<"b">>, <<"2">>>> >>)

\* the authorize URL for a client_id
AuthorizeUrl(client_id) ==
    BASE_URL_AUTHORIZE \o "?client_id=" \o QuotePlus(client_id)
        \o "&redirect_uri=ru.hse.pf%3A%2F%2Fauth.hse.ru%2Fadfs%2Foauth2%2Fandroid%2Fru.hse.pf%2Fcallback%2F"
        \o "&response_type=code"

\* C17: the requests of a get_bearer_token run are a prefix of (authorize
\* POST, GET on the Location of step 1, token POST), each sent once; the GET
\* follows a 302 to the POST, the token POST follows a 302 with a code to the
\* GET, and a token is returned only after all three.
C17_RequestsArePrefix ==
    ret.op \in HandshakeOps
        => /\ Len(reqs) <= 3
           /\ Len(reqs) >= 1
                => /\ reqs[1].method = "POST"
                   /\ reqs[1].url \in {AuthorizeUrl(c.client_id) : c \in Credentials}
           /\ Len(reqs) >= 2
                => /\ reqs[1].resp.status = HTTP_FOUND
                   /\ reqs[2].method = "GET"
                   /\ reqs[2].url = reqs[1].resp.location
           /\ Len(reqs) >= 3
                => /\ reqs[2].resp.status = HTTP_FOUND
                   /\ ~LacksCode(reqs[2].resp.location)
                   /\ reqs[3].method = "POST"
                   /\ reqs[3].url = BASE_URL_TOKEN
           /\ ret.kind = "return" => Len(reqs) = 3
           /\ pc = "step2" => Len(reqs) = 1
           /\ pc = "step3" => Len(reqs) = 2

C17_Witness ==
    ret.op = "get_bearer_token" /\ ret.kind = "return" /\ ret.value = "tok123"

\* C18: the authorize POST and the follow-up GET are sent with
\* allow_redirects off, no request of the handshake goes to the Location the
\* GET returned, and that Location only supplies the code of the token POST.
C18_RedirectChainStopsAtStep2 ==
    ret.op \in HandshakeOps
        => /\ \A i \in DOMAIN reqs :
                /\ i <= 2 => ~reqs[i].allow_redirects
                /\ reqs[i].url \notin
                      {LocCallbackCode, LocCallbackNoCode, LocCallbackBlankCode}
                /\ Len(reqs) >= 2 => reqs[i].url # reqs[2].resp.location
           /\ (Len(reqs) = 3 /\ reqs[2].resp.location = LocCallbackCode)
                => reqs[3].data[1] = <<"code", <<"KwMmAUI6c0">>>>

C18_Witness ==
    ret.op = "auth" /\ Len(reqs) = 3 /\ reqs[2].resp.location = LocCallbackCode

\* C19: a step of search, search_by_email or get_request, however it ends,
\* leaves the session and the token as they were, and no step at all changes
\* the credentials.
C19_WrapperLeavesClientUnchanged ==
    [][/\ ret'.op \in WrapperOps => (session' = session /\ token' = token)
       /\ creds' = creds]_vars

C19_Witness ==
    ret.op = "search_by_email" /\ ret.err = ErrJson /\ token # NoneStr
        /\ lastAuth.outcome = "ok"

\* C20: a set token implies a session; once auth() has created its session,
\* the client's session is one auth() created and is never None, also after
\* an auth() whose handshake failed.
C20_TokenImpliesSession ==
    /\ token # NoneStr => session # NoSession
    /\ mine # {} => (session \in mine /\ session # NoSession)
    /\ lastAuth.outcome # "none" => session # NoSession
    /\ (ret.op = "auth" /\ pc # "auth_new") => session # NoSession

C20_Witness ==
    lastAuth.outcome = "failed" /\ token = NoneStr /\ session # NoSession /\ pc = "idle"

====
